---- MODULE Spec2Model ----
(***************************************************************************)
(* Model of plot_onion_rings (src/src/onion_rings/onion_rings.py).         *)
(*                                                                         *)
(* Numbers are exact extended rationals [n, d]: d > 0 is the fraction n/d  *)
(* in lowest terms, d = 0 is the result of a division by zero (0/0 = nan,  *)
(* x/0 = inf), which numpy produces without raising.  Angles are kept as   *)
(* the rational coefficient of pi, so that 2*pi is the rational 2 and a    *)
(* quantity such as "angle + 180" is the pair (coefficient of pi, plain    *)
(* part).  Python's 0-based lists are 1-based sequences here: the element  *)
(* the code calls x[i] is x[i+1].                                          *)
(***************************************************************************)
EXTENDS Integers, Sequences, FiniteSets, TLC

\* ------------------------------------------------------------------ bounds
MaxDepth == 4
MaxBranch == 3
MaxLeaves == 4
MaxValue == 1
MaxPalette == 2

\* ---------------------------------------------------------------- numbers
Abs(x) == IF x < 0 THEN -x ELSE x

RECURSIVE GCD(_, _)
GCD(a, b) == IF b = 0 THEN a ELSE GCD(b, a % b)

NaN == [n |-> 0, d |-> 0]
Inf == [n |-> 1, d |-> 0]

\* the fraction a/b of two integers, b >= 0, as numpy's true division gives it
Quot(a, b) ==
    IF b = 0 THEN (IF a = 0 THEN NaN ELSE Inf)
    ELSE LET g == GCD(Abs(a), b) IN [n |-> a \div g, d |-> b \div g]

Zero == Quot(0, 1)
One == Quot(1, 1)
IsNum(x) == x.d > 0

RAdd(x, y) == IF IsNum(x) /\ IsNum(y) THEN Quot(x.n * y.d + y.n * x.d, x.d * y.d) ELSE NaN
RSub(x, y) == IF IsNum(x) /\ IsNum(y) THEN Quot(x.n * y.d - y.n * x.d, x.d * y.d) ELSE NaN
RMulInt(x, k) == IF IsNum(x) THEN Quot(x.n * k, x.d) ELSE x
RDivInt(x, k) == IF IsNum(x) THEN Quot(x.n, x.d * k) ELSE x
\* x > y; any comparison with nan is False
RGt(x, y) == IsNum(x) /\ IsNum(y) /\ x.n * y.d > y.n * x.d

RECURSIVE Prod(_, _, _)
\* product of s[a..b]
Prod(s, a, b) == IF a > b THEN 1 ELSE s[a] * Prod(s, a + 1, b)

RECURSIVE SumInt(_, _, _)
SumInt(s, a, b) == IF a > b THEN 0 ELSE s[a] + SumInt(s, a + 1, b)

RECURSIVE SumRat(_, _, _)
SumRat(s, a, b) == IF a > b THEN Zero ELSE RAdd(s[a], SumRat(s, a + 1, b))

RECURSIVE Flatten(_)
Flatten(ss) == IF ss = <<>> THEN <<>> ELSE Head(ss) \o Flatten(Tail(ss))

\* ----------------------------------------------------------------- inputs
Shapes ==
    { s \in UNION { [1..l -> 1..MaxBranch] : l \in 1..MaxDepth } :
        Prod(s, 1, Len(s)) <= MaxLeaves }

\* the default plot_threshold = 0.02, and a threshold some fractions are equal to
DefaultThreshold == Quot(1, 50)
Thresholds == { DefaultThreshold, Quot(1, 4) }

VARIABLES
    NUMBER_ITEMS_PER_LEVEL, \* np.shape(data_array)
    data_array,             \* the leaves, flattened in C order
    labels,                 \* labels[k]: the category names of level k-1
    NUMBER_BASE,            \* basemap.N
    plot_threshold,
    rel_percent,
    pc,
    raisedAt,               \* source line of the statement that raised, 0 if none
    level,
    my_map,
    alpha_range,
    alpha_per_level,
    my_level_map,
    figure,
    values_normalized,
    values_in_angles,
    hierachical_values_in_angle,
    hierarchical_original_values,
    hierarchical_percent_values,
    width_values_at_level,
    original_values_at_level,
    percent_values_at_level,
    rel_percent_values_at_level,
    edge_values_at_level,
    stop_color_index,
    bars,
    texts

inputs == <<NUMBER_ITEMS_PER_LEVEL, data_array, labels, NUMBER_BASE, plot_threshold, rel_percent>>
colours == <<my_map, alpha_range, alpha_per_level, my_level_map>>
layout == <<values_normalized, values_in_angles, hierachical_values_in_angle,
            hierarchical_original_values, hierarchical_percent_values,
            width_values_at_level, original_values_at_level, percent_values_at_level,
            rel_percent_values_at_level, edge_values_at_level>>
drawing == <<figure, stop_color_index, bars, texts>>
vars == <<inputs, pc, raisedAt, level, colours, layout, drawing>>

NUMBER_LEVELS == Len(NUMBER_ITEMS_PER_LEVEL)
low_alpha_range == Quot(2, 5)

\* the category names of a level: n names <<k, 1>> .. <<k, n>>, or one name
\* fewer at the level `short`
LabelsOf(shape, short) ==
    [k \in 1..Len(shape) |->
        [j \in 1..(IF k = short THEN shape[k] - 1 ELSE shape[k]) |-> <<k, j>>]]

\* The arguments of the call.  The palette is read by lines 63-74 only and the
\* leaf values, threshold, percent mode and labels by lines 116-185 only, so
\* the palette size is varied over one fixed tensor per shape, and the tensor,
\* threshold, mode and labels over one fixed palette.
Arguments ==
    /\ NUMBER_ITEMS_PER_LEVEL \in Shapes
    /\ \/ /\ NUMBER_BASE \in 1..MaxPalette
          /\ data_array = [j \in 1..Prod(NUMBER_ITEMS_PER_LEVEL, 1, NUMBER_LEVELS) |-> 1]
          /\ labels = LabelsOf(NUMBER_ITEMS_PER_LEVEL, 0)
          /\ plot_threshold = DefaultThreshold
          /\ rel_percent = FALSE
       \/ /\ NUMBER_BASE = MaxPalette
          /\ data_array \in [1..Prod(NUMBER_ITEMS_PER_LEVEL, 1, NUMBER_LEVELS) -> 0..MaxValue]
          /\ \E short \in {0, NUMBER_LEVELS} :
                labels = LabelsOf(NUMBER_ITEMS_PER_LEVEL, short)
          /\ plot_threshold \in Thresholds
          /\ rel_percent \in BOOLEAN

Init ==
    /\ Arguments
    /\ pc = "start"
    /\ raisedAt = 0
    /\ level = 0
    /\ my_map = <<>>
    /\ alpha_range = <<>>
    /\ alpha_per_level = <<>>
    /\ my_level_map = <<>>
    /\ figure = FALSE
    /\ values_normalized = <<>>
    /\ values_in_angles = <<>>
    /\ hierachical_values_in_angle = <<>>
    /\ hierarchical_original_values = <<>>
    /\ hierarchical_percent_values = <<>>
    /\ width_values_at_level = <<>>
    /\ original_values_at_level = <<>>
    /\ percent_values_at_level = <<>>
    /\ rel_percent_values_at_level = <<>>
    /\ edge_values_at_level = <<>>
    /\ stop_color_index = 0
    /\ bars = <<>>
    /\ texts = <<>>

\* ------------------------------------------------- base colours (l. 72-79)
\* basemap(np.mod(i, NUMBER_BASE)): an opaque palette entry, named by its index
BaseColorWrong(i) == [rgb |-> i, alpha |-> One]
BaseColor(i) == [rgb |-> i % NUMBER_BASE, alpha |-> One]

BaseColors ==
    /\ pc = "start"
    /\ my_map' = [i \in 1..NUMBER_ITEMS_PER_LEVEL[1] |-> BaseColor(i - 1)]
    /\ alpha_range' = << <<One, low_alpha_range>> >>
    /\ alpha_per_level' = << <<One>> >>
    /\ level' = 1
    /\ pc' = "alpha"
    /\ UNCHANGED <<inputs, raisedAt, my_level_map, layout, drawing>>

\* -------------------------------------------------- alpha scheduler (81-92)
DeltaToFloor(hi, next, nb_items) == RDivInt(RSub(hi, low_alpha_range), nb_items + 1)
Delta(hi, next, nb_items) == RDivInt(RSub(hi, next), nb_items + 1)

NewAlphas(hi, next, nb_items) ==
    [j \in 1..(nb_items + 1) |-> RSub(hi, RMulInt(Delta(hi, next, nb_items), j))]

KeptAll(new_alphas) == new_alphas
\* new_alphas[0:-1]
Kept(new_alphas) == SubSeq(new_alphas, 1, Len(new_alphas) - 1)

RECURSIVE SplitFrom(_, _, _)
\* the loop of line 84 from position i on: the lists appended to alpha_range,
\* the values appended to level_alpha, and whether it ran without IndexError
SplitFrom(prev, i, nb_items) ==
    IF i > Len(prev) THEN [ranges |-> <<>>, alphas |-> <<>>, ok |-> TRUE]
    ELSE IF RGt(prev[i], low_alpha_range)
    THEN IF i + 1 > Len(prev)
         THEN [ranges |-> <<>>, alphas |-> <<>>, ok |-> FALSE]
         ELSE LET new_alphas == NewAlphas(prev[i], prev[i + 1], nb_items)
                  rest == SplitFrom(prev, i + 1, nb_items)
              IN  [ranges |-> <<new_alphas>> \o rest.ranges,
                   alphas |-> Kept(new_alphas) \o rest.alphas,
                   ok |-> rest.ok]
    ELSE SplitFrom(prev, i + 1, nb_items)

ScheduleLevel ==
    /\ pc = "alpha"
    /\ level < NUMBER_LEVELS
    /\ LET r == SplitFrom(alpha_range[level], 1, NUMBER_ITEMS_PER_LEVEL[level + 1])
       IN  /\ alpha_range' = alpha_range \o r.ranges
           /\ IF r.ok
              THEN /\ alpha_per_level' = Append(alpha_per_level, r.alphas)
                   /\ level' = level + 1
                   /\ UNCHANGED <<pc, raisedAt>>
              ELSE /\ pc' = "raised"
                   /\ raisedAt' = 87
                   /\ UNCHANGED <<alpha_per_level, level>>
    /\ UNCHANGED <<inputs, my_map, my_level_map, layout, drawing>>

\* ------------------------------------------------ level colour map (95-107)
\* int(NUMBER_CUM_ITEMS_PER_LEVEL[lv]) for the 0-based level lv
NUMBER_CUM_ITEMS_PER_LEVEL(lv) ==
    Prod(NUMBER_ITEMS_PER_LEVEL, 1, lv + 1) \div NUMBER_ITEMS_PER_LEVEL[1]

\* the entries the loops of lines 98-107 append for the 0-based level lv
LevelColors(lv) ==
    IF lv = 0 THEN my_map
    ELSE Flatten([b \in 1..Len(my_map) |->
            [item \in 1..NUMBER_CUM_ITEMS_PER_LEVEL(lv) |->
                [rgb |-> my_map[b].rgb, alpha |-> alpha_per_level[lv + 1][item]]]])

BuildLevelMap ==
    /\ pc = "alpha"
    /\ level >= NUMBER_LEVELS
    /\ IF \A lv \in 1..(NUMBER_LEVELS - 1) :
             NUMBER_CUM_ITEMS_PER_LEVEL(lv) <= Len(alpha_per_level[lv + 1])
       THEN /\ my_level_map' = Flatten([k \in 1..NUMBER_LEVELS |-> LevelColors(k - 1)])
            /\ pc' = "figure"
            /\ UNCHANGED raisedAt
       ELSE /\ pc' = "raised"
            /\ raisedAt' = 105
            /\ UNCHANGED my_level_map
    /\ UNCHANGED <<inputs, level, my_map, alpha_range, alpha_per_level, layout, drawing>>

\* ------------------------------------------------------- figure (113-114)
CreateFigure ==
    /\ pc = "figure"
    /\ figure' = TRUE
    /\ pc' = "normalize"
    /\ UNCHANGED <<inputs, raisedAt, level, colours, layout, stop_color_index, bars, texts>>

\* ------------------------------------------------ normalisation (116-117)
\* np.sum(data_array)
Total == SumInt(data_array, 1, Len(data_array))

Normalize ==
    /\ pc = "normalize"
    /\ values_normalized' = [j \in 1..Len(data_array) |-> Quot(data_array[j], Total)]
    /\ values_in_angles' = [j \in 1..Len(data_array) |-> RMulInt(Quot(data_array[j], Total), 2)]
    /\ level' = NUMBER_LEVELS - 1
    /\ pc' = "aggregate"
    /\ UNCHANGED <<inputs, raisedAt, colours, drawing,
                   hierachical_values_in_angle, hierarchical_original_values,
                   hierarchical_percent_values, width_values_at_level,
                   original_values_at_level, percent_values_at_level,
                   rel_percent_values_at_level, edge_values_at_level>>

\* -------------------------------------------------- aggregation (127-147)
SumStridedInt(flat, n) ==
    [i \in 1..(Len(flat) \div n) |->
        SumInt([c \in 1..n |-> flat[i + (c - 1) * (Len(flat) \div n)]], 1, n)]
\* x.sum(axis=-1) of a tensor whose last axis has n entries, flattened
SumLastAxisInt(flat, n) ==
    [i \in 1..(Len(flat) \div n) |-> SumInt(flat, (i - 1) * n + 1, i * n)]
SumLastAxisRat(flat, n) ==
    [i \in 1..(Len(flat) \div n) |-> SumRat(flat, (i - 1) * n + 1, i * n)]

\* np.sum(data_array, axis=tuple(range(lv+1, NUMBER_LEVELS))), flattened
DataArrayTemp(lv) ==
    SumLastAxisInt(data_array, Prod(NUMBER_ITEMS_PER_LEVEL, lv + 2, NUMBER_LEVELS))

\* x / np.expand_dims(np.sum(x, axis=-1), axis=-1) for the 0-based level lv
RelPercent(x, lv) ==
    LET n == NUMBER_ITEMS_PER_LEVEL[lv + 1]
        outersums == SumLastAxisInt(x, n)
    IN  [i \in 1..Len(x) |-> Quot(x[i], outersums[((i - 1) \div n) + 1])]

RECURSIVE Cumsum(_)
Cumsum(s) ==
    IF s = <<>> THEN <<>>
    ELSE LET front == Cumsum(SubSeq(s, 1, Len(s) - 1))
         IN  Append(front, IF front = <<>> THEN s[Len(s)]
                           ELSE RAdd(front[Len(front)], s[Len(s)]))

EdgesNoShift(widths) == Cumsum(widths)
\* np.cumsum(np.append(0, widths[:-1]))
Edges(widths) == Cumsum(<<Zero>> \o SubSeq(widths, 1, Len(widths) - 1))

\* list.insert(0, x)
Insert0(list, x) == <<x>> \o list

AggregateLevel ==
    /\ pc = "aggregate"
    /\ level >= 0
    /\ LET last == (level = NUMBER_LEVELS - 1)
           n == IF last THEN 1 ELSE NUMBER_ITEMS_PER_LEVEL[level + 2]
           angle == IF last THEN values_in_angles
                    ELSE SumLastAxisRat(hierachical_values_in_angle, n)
           original == IF last THEN data_array
                       ELSE SumLastAxisInt(hierarchical_original_values, n)
           percent == IF last THEN values_normalized
                      ELSE SumLastAxisRat(hierarchical_percent_values, n)
           relp == IF last THEN RelPercent(data_array, level)
                   ELSE RelPercent(DataArrayTemp(level), level)
       IN  /\ hierachical_values_in_angle' = angle
           /\ hierarchical_original_values' = original
           /\ hierarchical_percent_values' = percent
           /\ edge_values_at_level' = Insert0(edge_values_at_level, Edges(angle))
           /\ width_values_at_level' = Insert0(width_values_at_level, angle)
           /\ original_values_at_level' = Insert0(original_values_at_level, original)
           /\ rel_percent_values_at_level' = Insert0(rel_percent_values_at_level, relp)
           /\ percent_values_at_level' = Insert0(percent_values_at_level, percent)
    /\ IF level = 0
       THEN pc' = "plot" /\ level' = 0
       ELSE pc' = pc /\ level' = level - 1
    /\ UNCHANGED <<inputs, raisedAt, colours, drawing, values_normalized, values_in_angles>>

\* ------------------------------------------------------ plotting (150-185)
Min(a, b) == IF a < b THEN a ELSE b

\* 1.0/(NUMBER_LEVELS+1)
SIZE == Quot(1, NUMBER_LEVELS + 1)

\* lines 172-175: the anchor angle of segment i (0-based) of a level
Angle(region_edges, i) ==
    IF i < Len(region_edges) - 1
    THEN RDivInt(RAdd(region_edges[i + 1], region_edges[i + 2]), 2)
    ELSE RDivInt(RAdd(region_edges[Len(region_edges)], Quot(2, 1)), 2)

\* lines 176-179: a rotation is pi * (its pi part) + (its plain part)
TextRotation(angle) ==
    IF RGt(angle, One) THEN [pi |-> Zero, plain |-> 0]
    ELSE [pi |-> angle, plain |-> 180]

VisibleOrEqual(percent) == IsNum(percent) /\ ~ RGt(plot_threshold, percent)
\* line 180
Visible(percent) == RGt(percent, plot_threshold)

LabelIndexNoMod(i, lv) == i
\* np.mod(i, NUMBER_ITEMS_PER_LEVEL[level])
LabelIndex(i, lv) == i % NUMBER_ITEMS_PER_LEVEL[lv + 1]

\* np.round(x*100, 1): tenths of a percent, ties to even
RoundPercent(x) ==
    IF ~ IsNum(x) THEN x
    ELSE LET q == (1000 * x.n) \div x.d
             r == (1000 * x.n) % x.d
             m == IF 2 * r < x.d THEN q
                  ELSE IF 2 * r > x.d THEN q + 1
                  ELSE IF q % 2 = 0 THEN q ELSE q + 1
         IN  Quot(m, 10)

\* lines 182-185: the text of segment i (0-based) of the 0-based level lv
TextOf(lv, i) ==
    [level |-> lv,
     index |-> i,
     x |-> Angle(edge_values_at_level[lv + 1], i),
     y |-> RAdd(RMulInt(SIZE, 3), RMulInt(SIZE, 2 * lv)),
     category |-> labels[lv + 1][LabelIndex(i, lv) + 1],
     percent |-> RoundPercent(IF rel_percent THEN rel_percent_values_at_level[lv + 1][i + 1]
                              ELSE percent_values_at_level[lv + 1][i + 1]),
     raw |-> original_values_at_level[lv + 1][i + 1],
     rotation |-> TextRotation(Angle(edge_values_at_level[lv + 1], i))]

RECURSIVE TextsFrom(_, _)
\* the loop of line 171 from segment i on: the texts drawn and whether the
\* loop ran without IndexError
TextsFrom(lv, i) ==
    IF i >= Len(edge_values_at_level[lv + 1]) THEN [texts |-> <<>>, ok |-> TRUE]
    ELSE IF Visible(percent_values_at_level[lv + 1][i + 1])
    THEN IF LabelIndex(i, lv) >= Len(labels[lv + 1])
         THEN [texts |-> <<>>, ok |-> FALSE]
         ELSE LET rest == TextsFrom(lv, i + 1)
              IN  [texts |-> <<TextOf(lv, i)>> \o rest.texts, ok |-> rest.ok]
    ELSE TextsFrom(lv, i + 1)

PlotLevel ==
    /\ pc = "plot"
    /\ level < NUMBER_LEVELS
    /\ LET start_color_index == IF level = 0 THEN 0 ELSE stop_color_index
           stop == start_color_index + Prod(NUMBER_ITEMS_PER_LEVEL, 1, level + 1)
           colors_level == SubSeq(my_level_map, start_color_index + 1,
                                  Min(stop, Len(my_level_map)))
           r == TextsFrom(level, 0)
       IN  /\ stop_color_index' = stop
           /\ bars' = Append(bars, [x |-> edge_values_at_level[level + 1],
                                    width |-> width_values_at_level[level + 1],
                                    bottom |-> RAdd(RMulInt(SIZE, 2), RMulInt(SIZE, 2 * level)),
                                    height |-> RMulInt(SIZE, 2),
                                    color |-> colors_level])
           /\ texts' = texts \o r.texts
           /\ IF r.ok
              THEN level' = level + 1 /\ UNCHANGED <<pc, raisedAt>>
              ELSE pc' = "raised" /\ raisedAt' = (IF rel_percent THEN 182 ELSE 184)
                   /\ UNCHANGED level
    /\ UNCHANGED <<inputs, colours, layout, figure>>

\* ------------------------------------------------------- return (187-189)
Finish ==
    /\ pc = "plot"
    /\ level >= NUMBER_LEVELS
    /\ pc' = "done"
    /\ UNCHANGED <<inputs, raisedAt, level, colours, layout, drawing>>

Next == BaseColors \/ ScheduleLevel \/ BuildLevelMap \/ CreateFigure \/ Normalize
        \/ AggregateLevel \/ PlotLevel \/ Finish

Spec == Init /\ [][Next]_vars

\* ================================================================= claims
\* number of nodes of the 0-based level lv
Nodes(lv) == Prod(NUMBER_ITEMS_PER_LEVEL, 1, lv + 1)
\* 0-based level held at position k of a per-level list under construction
LevelAt(list, k) == NUMBER_LEVELS - Len(list) + k - 1
TextSet == { texts[j] : j \in 1..Len(texts) }
\* the 0-based levels whose label loop ran to its end
LabelledLevels ==
    IF pc = "done" THEN 0..(NUMBER_LEVELS - 1)
    ELSE IF pc = "plot" \/ (pc = "raised" /\ raisedAt \in {182, 184}) THEN 0..(level - 1)
    ELSE {}
TwoPi == Quot(2, 1)

\* C1: for a tensor with positive total, the segments of every level tile the
\* full circle: edge[0] = 0, edge[i+1] = edge[i] + width[i] (so the edges are
\* non-decreasing) and edge[last] + width[last] = 2*pi.
C1_LevelsTileCircle ==
    Total > 0 =>
        \A k \in 1..Len(edge_values_at_level) :
            LET e == edge_values_at_level[k]
                w == width_values_at_level[k]
            IN  /\ Len(e) = Nodes(LevelAt(edge_values_at_level, k))
                /\ Len(w) = Len(e)
                /\ e[1] = Zero
                /\ \A i \in 1..(Len(e) - 1) :
                      e[i + 1] = RAdd(e[i], w[i]) /\ ~ RGt(e[i], e[i + 1])
                /\ RAdd(e[Len(e)], w[Len(e)]) = TwoPi

C1_Witness ==
    /\ pc = "done"
    /\ Total > 0
    /\ \E k \in 1..Len(bars) :
          /\ Len(bars[k].x) >= 3
          /\ RGt(bars[k].x[2], Zero)
          /\ RGt(bars[k].x[3], bars[k].x[2])

\* C2: the aggregate of a node at level k is the sum of the aggregates of its
\* n_{k+1} children at level k+1, the deepest level is the input itself, and
\* the per-level lists are in root-to-leaf order with one entry per node.
C2_AggregationConsistent ==
    pc \in {"plot", "done"} =>
        /\ Len(original_values_at_level) = NUMBER_LEVELS
        /\ original_values_at_level[NUMBER_LEVELS] = data_array
        /\ \A k \in 1..NUMBER_LEVELS : Len(original_values_at_level[k]) = Nodes(k - 1)
        /\ \A k \in 1..(NUMBER_LEVELS - 1) :
              \A idx \in 1..Len(original_values_at_level[k]) :
                  LET n == NUMBER_ITEMS_PER_LEVEL[k + 1]
                      children == [c \in 1..n |->
                                     original_values_at_level[k + 1][(idx - 1) * n + c]]
                  IN  original_values_at_level[k][idx] = SumInt(children, 1, n)

C2_Witness ==
    /\ pc = "done"
    /\ NUMBER_LEVELS >= 3
    /\ \E i, j \in 1..Len(data_array) : data_array[i] # data_array[j]
    /\ \E idx \in 1..Len(original_values_at_level[1]) : original_values_at_level[1][idx] >= 2

\* C3: with an all-zero tensor the call fails before anything is rendered: no
\* figure, no arcs, no texts, no widths computed from 0/0, no normal return.
C3_ZeroTotalRejected ==
    Total = 0 =>
        /\ ~ figure
        /\ bars = <<>>
        /\ texts = <<>>
        /\ values_normalized = <<>>
        /\ pc # "done"

C5_AlphaMonotone ==
    /\ \A k \in 2..Len(alpha_per_level) :
          \A j \in 1..Len(alpha_per_level[k]) : RGt(alpha_per_level[k][j], low_alpha_range)
    /\ \A k \in 1..Len(bars) :
          \A i \in 1..Len(bars[k].color) :
              IF k = 1 THEN bars[k].color[i].alpha = One
              ELSE RGt(bars[k - 1].color[((i - 1) \div NUMBER_ITEMS_PER_LEVEL[k]) + 1].alpha,
                       bars[k].color[i].alpha)

C5_Witness ==
    /\ pc = "done"
    /\ Total > 0
    /\ NUMBER_LEVELS >= 3
    /\ NUMBER_ITEMS_PER_LEVEL[2] >= 2
    /\ Len(bars) = NUMBER_LEVELS

\* C6: a segment gets a label exactly when its fraction of the grand total is
\* strictly greater than the threshold, in both percent modes, and every level
\* drawn has one arc per node, labelled or not.
C6_ThresholdFilter ==
    /\ \A t \in TextSet :
          RGt(percent_values_at_level[t.level + 1][t.index + 1], plot_threshold)
    /\ \A lv \in LabelledLevels :
          \A i \in 0..(Nodes(lv) - 1) :
              RGt(percent_values_at_level[lv + 1][i + 1], plot_threshold)
                  => \E t \in TextSet : t.level = lv /\ t.index = i
    /\ \A k \in 1..Len(bars) :
          /\ Len(bars[k].x) = Nodes(k - 1)
          /\ Len(bars[k].width) = Nodes(k - 1)
          /\ Len(bars[k].color) = Nodes(k - 1)

C6_Witness ==
    /\ pc = "done"
    /\ rel_percent
    /\ RGt(plot_threshold, Zero)
    /\ \E lv \in 0..(NUMBER_LEVELS - 1) :
          \E i \in 0..(Nodes(lv) - 1) :
              /\ percent_values_at_level[lv + 1][i + 1] = plot_threshold
              /\ Len(bars[lv + 1].x) = Nodes(lv)
              /\ ~ \E t \in TextSet : t.level = lv /\ t.index = i
    /\ \E t \in TextSet : t.level > 0

\* C7: the arc at flattened index i of level k has the RGB of palette entry
\* (i div (n_1*...*n_k)) mod P, and the colour slice of level k has one entry
\* per node of the level.
C7_ColourByAncestor ==
    \A k \in 1..Len(bars) :
        /\ Len(bars[k].color) = Nodes(k - 1)
        /\ \A i \in 0..(Len(bars[k].color) - 1) :
              bars[k].color[i + 1].rgb =
                  (i \div Prod(NUMBER_ITEMS_PER_LEVEL, 2, k)) % NUMBER_BASE

C7_Witness ==
    /\ pc = "done"
    /\ Total > 0
    /\ NUMBER_ITEMS_PER_LEVEL[1] > NUMBER_BASE
    /\ NUMBER_BASE >= 2
    /\ Len(bars) >= 2

\* C8: the rotation of a text with anchor angle a is 0 when a > pi and a + pi
\* otherwise, the half-turn being in the unit of a.
C8_RotationHalfTurn ==
    \A t \in TextSet :
        t.rotation = IF RGt(t.x, One) THEN [pi |-> Zero, plain |-> 0]
                     ELSE [pi |-> RAdd(t.x, One), plain |-> 0]

\* C9: for every depth >= 2 the alpha scheduler raises no IndexError, the
\* schedule of level k holds n_1*...*n_k opacities, and the colour builder
\* finds an opacity for every node.
C9_SchedulerCompletes ==
    /\ raisedAt \notin {87, 105}
    /\ \A k \in 2..Len(alpha_per_level) :
          Len(alpha_per_level[k]) = Prod(NUMBER_ITEMS_PER_LEVEL, 2, k)

\* C10 as stated: a new opacity v is carried down as the range (v, lo) with
\* the lower end lo of its parent range; the level-1 opacities split
\* (1.0, 0.4), so the children of v at level 2 are v - j*(v - 0.4)/(n_2 + 1).
C10_ChildrenSplitToParentFloor ==
    Len(alpha_per_level) >= 3 =>
        \A i \in 1..NUMBER_ITEMS_PER_LEVEL[2] :
            \A j \in 1..NUMBER_ITEMS_PER_LEVEL[3] :
                LET v == alpha_per_level[2][i]
                    n == NUMBER_ITEMS_PER_LEVEL[3]
                IN  alpha_per_level[3][(i - 1) * n + j] =
                        RSub(v, RDivInt(RMulInt(RSub(v, low_alpha_range), j), n + 1))

\* C10 amended: the opacities of level k are hi - j*(hi - next)/(n_k + 1),
\* j = 1..n_k, for each entry hi of the split list, where next is the entry
\* that follows hi in that list: the opacity of the next sibling, or the lower
\* end of the parent's range after the last sibling.
C10_ChildrenSplitToNextSibling ==
    \A k \in 2..Len(alpha_per_level) :
        LET n == NUMBER_ITEMS_PER_LEVEL[k]
            parents == alpha_per_level[k - 1]
        IN  /\ Len(alpha_per_level[k]) = Len(parents) * n
            /\ \A i \in 1..Len(parents) :
                  \A j \in 1..n :
                      LET hi == parents[i]
                          next == IF i < Len(parents) THEN parents[i + 1] ELSE low_alpha_range
                      IN  alpha_per_level[k][(i - 1) * n + j] =
                              RSub(hi, RDivInt(RMulInt(RSub(hi, next), j), n + 1))

C10_Witness ==
    /\ Len(alpha_per_level) >= 3
    /\ NUMBER_ITEMS_PER_LEVEL[2] >= 2
    /\ NUMBER_ITEMS_PER_LEVEL[3] >= 2
    /\ Total > 0
    /\ pc = "done"
====
